---- MODULE Spec2Model ----
(***************************************************************************)
(* Model of src/main.py: the Flask service that answers a natural-language *)
(* question about a cluster by synthesizing a Python snippet with a        *)
(* language model, exec()-ing it against the Kubernetes client, and        *)
(* summarising the raw result with a second language-model call.           *)
(*                                                                         *)
(* Python values are records [t |-> type name, v |-> payload], the payload *)
(* a sequence of text fragments: the digits of an int, the fragments of a  *)
(* str, the elements of a list, the keys of a dict.  A fragment is atomic: *)
(* the only fragment that contains the substring "Error" is "Error".       *)
(***************************************************************************)
EXTENDS Integers, Sequences, FiniteSets, TLC

VARIABLES
    openai,       \* module global `openai`: "None" or "client"
    v1,           \* module global `v1`: "None" or "client"
    openaiImportable, \* environment: does `import openai` succeed at start-up
    pydanticCoerces,  \* environment: installed pydantic coerces int -> str (v1) or not (v2)
    served,       \* number of POST /query requests admitted so far
    pc,           \* per worker: position of the request it is handling
    route,        \* per worker: method and path of the request it is handling
    body,         \* per worker: the body of the request it is handling
    query,        \* per worker: local `query` of create_query
    command,      \* per worker: local `command` of create_query
    raw_result,   \* per worker: local `raw_result` of create_query
    answer,       \* per worker: local `answer` of create_query
    response,     \* per worker: the HTTP response returned by create_query
    outcome,      \* per worker: which exit each stage function took
    calls,        \* per worker: how often each stage function was called
    asked,        \* per worker: what the language model answered to each stage
    log           \* per worker: the log entries written for its request

vars == <<openai, v1, openaiImportable, pydanticCoerces, served, pc, route, body,
          query, command, raw_result, answer, response, outcome, calls, asked, log>>

reqvars ==
    <<pc, route, body, query, command, raw_result, answer, response, outcome, calls,
      asked, log>>

(* ------------------------------ bounds ------------------------------- *)

\* Total number of requests the model admits.
MaxRequests == 2

\* Threads of the hosting runtime that handle requests concurrently.
Workers == {"w1", "w2"}

(* --------------------------- Python values --------------------------- *)

PyNone == [t |-> "NoneType", v |-> <<>>]
PyStr(frags) == [t |-> "str", v |-> frags]
PyInt(digits) == [t |-> "int", v |-> <<digits>>]
PyList(elems) == [t |-> "list", v |-> elems]
PyDict(keys) == [t |-> "dict", v |-> keys]

\* bool(x), as `if not x:` evaluates it.
Truthy(x) ==
    CASE x.t = "NoneType" -> FALSE
      [] x.t = "int" -> x.v # <<"0">>
      [] OTHER -> x.v # <<>>

\* `"Error" in x`: "yes", "no", or "TypeError" when x is not a container.
\* str: substring test; list: element equality; dict: key equality.
ContainsError(x) ==
    IF x.t \in {"str", "list", "dict"}
    THEN IF \E i \in 1..Len(x.v) : x.v[i] = "Error" THEN "yes" ELSE "no"
    ELSE "TypeError"

\* Whitespace fragments, which str.strip() removes at both ends.
Whitespace == {" ", "\n"}

RECURSIVE LStrip(_)
LStrip(s) ==
    IF s # <<>> /\ Head(s) \in Whitespace THEN LStrip(Tail(s)) ELSE s

RECURSIVE RStrip(_)
RStrip(s) ==
    IF s # <<>> /\ s[Len(s)] \in Whitespace
    THEN RStrip(SubSeq(s, 1, Len(s) - 1))
    ELSE s

\* str.strip()
Strip(s) == LStrip(RStrip(s))

\* str.replace(old, ""), on fragments.
RECURSIVE Remove(_, _)
Remove(s, old) ==
    IF s = <<>> THEN <<>>
    ELSE IF Head(s) = old THEN Remove(Tail(s), old)
    ELSE <<Head(s)>> \o Remove(Tail(s), old)

\* The fence markup of a completion: FENCE_PYTHON stands for three backticks
\* followed by "python", FENCE for three backticks.
FencePython == "FENCE_PYTHON"
Fence == "FENCE"

(* ------------------------------ logging ------------------------------ *)

\* An entry: its level, the function that writes it, and the stage its
\* message names.
LogAbout(level, by, stage) == <<level, by, stage>>
LogEntry(level, by) == LogAbout(level, by, by)

(* ---------------------- the executed operation ---------------------- *)

\* Snippets a completion may consist of (one fragment each).
StmtCountPods == "result = len(v1.list_pod_for_all_namespaces().items)"
StmtListPods == "result = [p.metadata.name for p in v1.list_namespaced_pod('default').items]"
StmtPodPhases == "result = {p.metadata.name: p.status.phase for p in v1.list_namespaced_pod('default').items}"
StmtPodPhase == "result = v1.read_namespaced_pod('web', 'default').status.phase"
StmtExitReason == "result = v1.read_namespaced_pod('job', 'default').status.container_statuses[0].state.terminated.reason"
StmtNoResult == "pods = v1.list_pod_for_all_namespaces()"
StmtDeployments == "result = v1.list_deployment_for_all_namespaces()"
StmtGhostPod == "result = v1.read_namespaced_pod('ghost', 'default')"
StmtExit == "raise SystemExit"
StmtAppName == "result = app.name"
StmtDropOpenai == "global openai; openai = None"
StmtSyntax == "result = ("

Statements ==
    {StmtCountPods, StmtListPods, StmtPodPhases, StmtPodPhase, StmtExitReason,
     StmtNoResult, StmtDeployments, StmtGhostPod, StmtExit, StmtAppName,
     StmtDropOpenai, StmtSyntax}

\* The names bound at module level when a request is handled (lines 1-172).
ModuleGlobals ==
    {"logging", "Flask", "request", "jsonify", "BaseModel", "ValidationError",
     "app", "v1", "openai", "QueryResponse", "generate_kubernetes_command",
     "execute_generated_command", "format_result_with_gpt", "create_query"}

\* Line 87 hands exec() the module's own dictionary, globals().
ExecGlobalsIsModuleDict == TRUE

\* The host names the executed operation can read and rebind.
ExecNames == IF ExecGlobalsIsModuleDict THEN ModuleGlobals ELSE {"v1"}

\* Host names a snippet reads.
Reads(stmt) ==
    CASE stmt = StmtAppName -> {"app"}
      [] stmt \in {StmtExit, StmtSyntax, StmtDropOpenai} -> {}
      [] OTHER -> {"v1"}

\* Exceptions derived from Exception; SystemExit derives from BaseException only.
ExceptionSubclasses ==
    {"AttributeError", "NameError", "SyntaxError", "ApiException", "TypeError",
     "BadRequest", "ValidationError"}

ExcMessage(exc) ==
    CASE exc = "AttributeError" -> "object has no attribute"
      [] exc = "NameError" -> "name is not defined"
      [] exc = "SyntaxError" -> "invalid syntax"
      [] exc = "ApiException" -> "(404) Reason: Not Found"
      [] exc = "TypeError" -> "argument is not iterable"
      [] exc = "BadRequest" -> "400 Bad Request: Failed to decode JSON object"
      [] OTHER -> exc

\* The state of one exec() run: the local slot `result`, the exception in
\* flight, and the module globals the run can rebind.
ExecStart(oa, v1h) ==
    [bound |-> FALSE, res |-> PyNone, exc |-> "", openai |-> oa, v1 |-> v1h]

Raise(st, exc) == [st EXCEPT !.exc = exc]
Bind(st, val) == [st EXCEPT !.bound = TRUE, !.res = val]

\* One statement of the operation, run in state st.
ExecStmt(stmt, st) ==
    IF st.exc # "" \/ stmt \in Whitespace THEN st
    ELSE IF ~(Reads(stmt) \subseteq ExecNames) THEN Raise(st, "NameError")
    ELSE IF "v1" \in Reads(stmt) /\ st.v1 = "None" THEN Raise(st, "AttributeError")
    ELSE CASE stmt = StmtCountPods -> Bind(st, PyInt("3"))
           [] stmt = StmtListPods -> Bind(st, PyList(<<"web", "db">>))
           [] stmt = StmtPodPhases -> Bind(st, PyDict(<<"web", "db">>))
           [] stmt = StmtPodPhase -> Bind(st, PyStr(<<"Running">>))
           [] stmt = StmtExitReason -> Bind(st, PyStr(<<"Error">>))
           [] stmt = StmtNoResult -> st
           [] stmt = StmtDeployments -> Raise(st, "AttributeError")
           [] stmt = StmtGhostPod -> Raise(st, "ApiException")
           [] stmt = StmtExit -> Raise(st, "SystemExit")
           [] stmt = StmtAppName -> Bind(st, PyStr(<<"main">>))
           [] stmt = StmtDropOpenai ->
                IF ExecGlobalsIsModuleDict THEN [st EXCEPT !.openai = "None"] ELSE st
           [] OTHER -> Raise(st, "SyntaxError")

RECURSIVE ExecBody(_, _)
ExecBody(text, st) ==
    IF text = <<>> THEN st ELSE ExecBody(Tail(text), ExecStmt(Head(text), st))

\* exec(command, globals(), local_vars), line 87: the text is compiled as a
\* whole, then run statement by statement.
Exec(text, oa, v1h) ==
    IF \E i \in 1..Len(text) : text[i] \notin (Statements \ {StmtSyntax}) \cup Whitespace
    THEN Raise(ExecStart(oa, v1h), "SyntaxError")
    ELSE ExecBody(text, ExecStart(oa, v1h))

(* ------------------------- the stage functions ------------------------ *)

\* A language-model call: it raises, or returns the content of a completion.
\* A call on a handle that another request rebinds to None between the
\* `if not openai` test and the call raises as well (AttributeError).
\* For a call that raises, content is the message of the exception.
LmError == [err |-> TRUE, content |-> <<"Rate limit reached">>]
LmReturns(content) == [err |-> FALSE, content |-> content]

\* Lines 46-74.
generate_kubernetes_command(oa, completion) ==
    IF oa = "None"
    THEN [ret |-> PyNone, exit |-> "ClientUnavailable",
          log |-> <<LogEntry("ERROR", "synth")>>]
    ELSE IF completion.err
    THEN [ret |-> PyNone, exit |-> "CallError",
          log |-> <<LogEntry("INFO", "synth"), LogEntry("ERROR", "synth")>>]
    ELSE [ret |-> PyStr(Strip(completion.content)), exit |-> "Returned",
          log |-> <<LogEntry("INFO", "synth"), LogEntry("INFO", "synth")>>]

NoCommandMsg == PyStr(<<"No command generated.">>)
NoResultMsg == PyStr(<<"No result returned">>)
UnsupportedMsg == PyStr(<<"Kubernetes client method not supported on Minikube.">>)
\* A failure text that leaves out the message of the exception.
ExecErrorMsgFixed(exc) == PyStr(<<"Error", " executing command">>)

ExecErrorMsg(exc) == PyStr(<<"Error", " executing command: ", ExcMessage(exc)>>)

\* Line 83: the text handed to exec().
ExecutedText(cmd) == Strip(Remove(Remove(cmd.v, FencePython), Fence))

\* Lines 77-96.  raised is the exception that leaves the function, "" if none.
execute_generated_command(cmd, oa, v1h) ==
    IF ~Truthy(cmd)
    THEN [ret |-> NoCommandMsg, exit |-> "NoCommand", raised |-> "",
          openai |-> oa, v1 |-> v1h, log |-> <<LogEntry("ERROR", "exec")>>]
    ELSE LET st == Exec(ExecutedText(cmd), oa, v1h)
             base == [ret |-> PyNone, exit |-> "", raised |-> "",
                      openai |-> st.openai, v1 |-> st.v1,
                      log |-> <<LogEntry("DEBUG", "exec")>>]
         IN  IF st.exc = ""
             THEN [base EXCEPT !.ret = IF st.bound THEN st.res ELSE NoResultMsg,
                               !.exit = IF st.bound THEN "Value" ELSE "NoResult",
                               !.log = @ \o <<LogEntry("DEBUG", "exec")>>]
             ELSE IF st.exc = "AttributeError"
             THEN [base EXCEPT !.ret = UnsupportedMsg,
                               !.exit = "ApiSurfaceMismatch",
                               !.log = @ \o <<LogEntry("ERROR", "exec")>>]
             ELSE IF st.exc \in ExceptionSubclasses
             THEN [base EXCEPT !.ret = ExecErrorMsg(st.exc),
                               !.exit = "RuntimeError",
                               !.log = @ \o <<LogEntry("ERROR", "exec")>>]
             ELSE [base EXCEPT !.exit = "Escaped", !.raised = st.exc]

FormatUnavailableMsg == PyStr(<<"Error", ": OpenAI client not available.">>)
\* A failure text that does not carry the marker the handler looks for.
FormatErrorMsgLower == PyStr(<<"error formatting answer.">>)

FormatErrorMsg == PyStr(<<"Error", " formatting answer.">>)

\* Lines 99-126.
format_result_with_gpt(oa, completion) ==
    IF oa = "None"
    THEN [ret |-> FormatUnavailableMsg, exit |-> "ClientUnavailable",
          log |-> <<LogEntry("ERROR", "fmt")>>]
    ELSE IF completion.err
    THEN [ret |-> FormatErrorMsg, exit |-> "CallError",
          log |-> <<LogEntry("INFO", "fmt"), LogEntry("ERROR", "fmt")>>]
    ELSE [ret |-> PyStr(Strip(completion.content)), exit |-> "Returned",
          log |-> <<LogEntry("INFO", "fmt"), LogEntry("INFO", "fmt")>>]

(* ------------------------- module initialization --------------------- *)

\* `import os` is not among the module's imports (lines 1-3).
OsImported == FALSE

\* Lines 29-38: the value of the global `openai` after start-up.
InitOpenai(importable) ==
    IF ~importable THEN "None"          \* ImportError, line 34
    ELSE IF ~OsImported THEN "None"     \* NameError at os.getenv, line 37
    ELSE "client"

\* Lines 16-26: the value of the global `v1` after start-up.
InitV1(kubeConfigOk) == IF kubeConfigOk THEN "client" ELSE "None"

NoBody == [kind |-> "none", data |-> PyNone, query |-> PyNone]
NoResponse == [status |-> 0, error |-> <<>>, query |-> PyNone, answer |-> <<>>]
NoOutcome == [synth |-> "", exec |-> "", fmt |-> ""]
NoCalls == [synth |-> 0, exec |-> 0, fmt |-> 0]
NoRoute == <<"", "">>
NotAsked == [err |-> FALSE, content |-> <<"(not called)">>]
NoAsked == [synth |-> NotAsked, fmt |-> NotAsked]

Init ==
    /\ openaiImportable \in BOOLEAN
    /\ pydanticCoerces \in BOOLEAN
    /\ openai = InitOpenai(openaiImportable)
    /\ \E ok \in BOOLEAN : v1 = InitV1(ok)
    /\ served = 0
    /\ pc = [w \in Workers |-> "idle"]
    /\ route = [w \in Workers |-> NoRoute]
    /\ body = [w \in Workers |-> NoBody]
    /\ query = [w \in Workers |-> PyNone]
    /\ command = [w \in Workers |-> PyNone]
    /\ raw_result = [w \in Workers |-> PyNone]
    /\ answer = [w \in Workers |-> PyNone]
    /\ response = [w \in Workers |-> NoResponse]
    /\ outcome = [w \in Workers |-> NoOutcome]
    /\ calls = [w \in Workers |-> NoCalls]
    /\ asked = [w \in Workers |-> NoAsked]
    /\ log = [w \in Workers |-> <<>>]

(* ------------------------------ inputs ------------------------------- *)

\* A request body: text that is not JSON, or a parsed JSON value; an object
\* carries the value of its 'query' member.
Malformed == [kind |-> "malformed", data |-> PyNone, query |-> PyNone]
JsonValue(val) == [kind |-> "json", data |-> val, query |-> PyNone]
JsonObject(keys, q) == [kind |-> "json", data |-> PyDict(keys), query |-> q]

TheQuery == PyStr(<<"how many pods are running?">>)

Bodies ==
    {Malformed,
     JsonValue(PyNone),
     JsonValue(PyList(<<"1">>)),
     JsonObject(<<>>, PyNone),
     JsonObject(<<"limit">>, PyNone),
     JsonObject(<<"query">>, PyStr(<<>>)),
     JsonObject(<<"query">>, TheQuery),
     JsonObject(<<"query">>, PyInt("5")),
     JsonObject(<<"query">>, PyList(<<"pods">>))}

\* What the language model may answer to the Synthesizer's prompt.
SynthCompletions ==
    {LmError, LmReturns(<<>>), LmReturns(<<" ">>),
     LmReturns(<<FencePython, "\n", Fence>>),
     LmReturns(<<FencePython, "\n", StmtCountPods, "\n", Fence, "\n">>)}
    \cup {LmReturns(<<stmt>>) : stmt \in Statements}

\* What the language model may answer to the Formatter's prompt.
FormatCompletions ==
    {LmError, LmReturns(<<"3", "\n">>), LmReturns(<<"Error", " state">>)}

(* --------------------------- create_query ---------------------------- *)

ErrorResponse(status, msg) ==
    [status |-> status, error |-> msg, query |-> PyNone, answer |-> <<>>]
OkResponse(q, a) ==
    [status |-> 200, error |-> <<>>, query |-> q, answer |-> a]

\* dict.get('query') on the parsed body.
GetQuery(data) ==
    IF \E i \in 1..Len(data.data.v) : data.data.v[i] = "query"
    THEN data.query ELSE PyNone

\* Lines 170-172: the handler's catch-all.
CaughtResponse(exc) == ErrorResponse(500, <<ExcMessage(exc)>>)
\* A catch-all that answers without logging.
CaughtLogNone == <<>>

CaughtLog == <<LogEntry("ERROR", "handler")>>

\* The request ends: the response is returned to the client.
Finish(w, resp, entries) ==
    /\ pc' = [pc EXCEPT ![w] = "done"]
    /\ response' = [response EXCEPT ![w] = resp]
    /\ log' = [log EXCEPT ![w] = @ \o entries]

\* Lines 131-143: read the body, validate it, bind `query`.
Receive(w, data) ==
    /\ pc[w] = "idle"
    /\ served < MaxRequests
    /\ served' = served + 1
    /\ route' = [route EXCEPT ![w] = <<"POST", "/query">>]
    /\ body' = [body EXCEPT ![w] = data]
    /\ LET rcv == <<LogEntry("INFO", "handler")>>
       IN  IF data.kind = "malformed"
           THEN \* request.json raises BadRequest inside the try block
                /\ Finish(w, CaughtResponse("BadRequest"), rcv \o CaughtLog)
                /\ UNCHANGED query
           ELSE IF ~Truthy(data.data)
           THEN /\ Finish(w, ErrorResponse(400, <<"Invalid JSON input">>),
                          rcv \o <<LogEntry("ERROR", "handler")>>)
                /\ UNCHANGED query
           ELSE IF data.data.t # "dict"
           THEN \* request_data.get raises AttributeError
                /\ Finish(w, CaughtResponse("AttributeError"), rcv \o CaughtLog)
                /\ UNCHANGED query
           ELSE IF ~Truthy(GetQuery(data))
           THEN /\ Finish(w, ErrorResponse(400, <<"No query provided">>),
                          rcv \o <<LogEntry("ERROR", "handler")>>)
                /\ query' = [query EXCEPT ![w] = GetQuery(data)]
           ELSE /\ pc' = [pc EXCEPT ![w] = "synthesize"]
                /\ query' = [query EXCEPT ![w] = GetQuery(data)]
                /\ log' = [log EXCEPT ![w] = @ \o rcv \o <<LogEntry("INFO", "handler")>>]
                /\ UNCHANGED response
    /\ UNCHANGED <<openai, v1, openaiImportable, pydanticCoerces, command,
                   raw_result, answer, outcome, calls, asked>>

\* A handler that tests `command is None` instead of `not command`.
NoCommandOnlyNone(cmd) == cmd.t = "NoneType"

\* Line 147: `if not command`.
NoCommand(cmd) == ~Truthy(cmd)

\* Lines 146-149: step 1, generate the command.
Synthesize(w, completion) ==
    /\ pc[w] = "synthesize"
    /\ LET r == generate_kubernetes_command(openai, completion)
       IN  /\ command' = [command EXCEPT ![w] = r.ret]
           /\ calls' = [calls EXCEPT ![w].synth = @ + 1]
           /\ asked' = [asked EXCEPT ![w].synth =
                            IF r.exit = "ClientUnavailable" THEN @ ELSE completion]
           /\ outcome' = [outcome EXCEPT ![w].synth = r.exit]
           /\ IF NoCommand(r.ret)
              THEN Finish(w, ErrorResponse(500, <<"Failed to generate command">>),
                          r.log \o <<LogAbout("ERROR", "handler", "synth")>>)
              ELSE /\ pc' = [pc EXCEPT ![w] = "execute"]
                   /\ log' = [log EXCEPT ![w] = @ \o r.log]
                   /\ UNCHANGED response
    /\ UNCHANGED <<openai, v1, openaiImportable, pydanticCoerces, served, route,
                   body, query, raw_result, answer>>

\* Lines 152-155: step 2, execute the command.
Execute(w) ==
    /\ pc[w] = "execute"
    /\ LET r == execute_generated_command(command[w], openai, v1)
           found == ContainsError(r.ret)
       IN  /\ openai' = r.openai
           /\ v1' = r.v1
           /\ calls' = [calls EXCEPT ![w].exec = @ + 1]
           /\ outcome' = [outcome EXCEPT ![w].exec = r.exit]
           /\ IF r.raised # ""
              THEN \* not an Exception: it leaves create_query too
                   /\ pc' = [pc EXCEPT ![w] = "crashed"]
                   /\ log' = [log EXCEPT ![w] = @ \o r.log]
                   /\ UNCHANGED <<raw_result, response>>
              ELSE /\ raw_result' = [raw_result EXCEPT ![w] = r.ret]
                   /\ IF found = "TypeError"
                      THEN Finish(w, CaughtResponse("TypeError"), r.log \o CaughtLog)
                      ELSE IF found = "yes"
                      THEN Finish(w, ErrorResponse(500, r.ret.v),
                                  r.log \o <<LogAbout("ERROR", "handler", "exec")>>)
                      ELSE /\ pc' = [pc EXCEPT ![w] = "format"]
                           /\ log' = [log EXCEPT ![w] = @ \o r.log]
                           /\ UNCHANGED response
    /\ UNCHANGED <<openaiImportable, pydanticCoerces, served, route, body, query,
                   command, answer, asked>>

\* QueryResponse(query=query, answer=answer), line 163: the value of the
\* field `query`, unless validation fails.
ValidatedQuery(q, coerces) ==
    IF q.t = "str" THEN [ok |-> TRUE, val |-> q]
    ELSE IF q.t = "int" /\ coerces THEN [ok |-> TRUE, val |-> PyStr(q.v)]
    ELSE [ok |-> FALSE, val |-> PyNone]

\* Lines 158-169: step 3, format the result and build the response.
Format(w, completion) ==
    /\ pc[w] = "format"
    /\ LET r == format_result_with_gpt(openai, completion)
           q == ValidatedQuery(query[w], pydanticCoerces)
       IN  /\ answer' = [answer EXCEPT ![w] = r.ret]
           /\ calls' = [calls EXCEPT ![w].fmt = @ + 1]
           /\ asked' = [asked EXCEPT ![w].fmt =
                            IF r.exit = "ClientUnavailable" THEN @ ELSE completion]
           /\ outcome' = [outcome EXCEPT ![w].fmt = r.exit]
           /\ IF ContainsError(r.ret) = "yes"
              THEN Finish(w, ErrorResponse(500, r.ret.v),
                          r.log \o <<LogAbout("ERROR", "handler", "fmt")>>)
              ELSE IF ~q.ok
              THEN Finish(w, ErrorResponse(400, <<"value is not a valid string">>),
                          r.log \o <<LogEntry("ERROR", "handler")>>)
              ELSE Finish(w, OkResponse(q.val, r.ret.v),
                          r.log \o <<LogEntry("INFO", "handler")>>)
    /\ UNCHANGED <<openai, v1, openaiImportable, pydanticCoerces, served, route,
                   body, query, command, raw_result>>

\* The response has been sent: the request's entities are discarded and the
\* worker is free for the next request.
Discard(w) ==
    /\ pc[w] = "done"
    /\ pc' = [pc EXCEPT ![w] = "idle"]
    /\ route' = [route EXCEPT ![w] = NoRoute]
    /\ body' = [body EXCEPT ![w] = NoBody]
    /\ query' = [query EXCEPT ![w] = PyNone]
    /\ command' = [command EXCEPT ![w] = PyNone]
    /\ raw_result' = [raw_result EXCEPT ![w] = PyNone]
    /\ answer' = [answer EXCEPT ![w] = PyNone]
    /\ response' = [response EXCEPT ![w] = NoResponse]
    /\ outcome' = [outcome EXCEPT ![w] = NoOutcome]
    /\ calls' = [calls EXCEPT ![w] = NoCalls]
    /\ asked' = [asked EXCEPT ![w] = NoAsked]
    /\ log' = [log EXCEPT ![w] = <<>>]
    /\ UNCHANGED <<openai, v1, openaiImportable, pydanticCoerces, served>>

\* The routes registered on the app: line 129 is the only @app.route.
UrlMap == {<<"POST", "/query">>}

\* Requests for other routes that clients send.
OtherRequests == {<<"GET", "/test_connection">>, <<"GET", "/query">>}

\* Flask's answer to a request the URL map does not match: 405 when the
\* path is registered for another method, 404 otherwise.  No view runs.
Unrouted(w, method, path) ==
    /\ pc[w] = "idle"
    /\ served < MaxRequests
    /\ <<method, path>> \notin UrlMap
    /\ served' = served + 1
    /\ route' = [route EXCEPT ![w] = <<method, path>>]
    /\ IF \E r \in UrlMap : r[2] = path
       THEN Finish(w, ErrorResponse(405, <<"Method Not Allowed">>), <<>>)
       ELSE Finish(w, ErrorResponse(404, <<"Not Found">>), <<>>)
    /\ UNCHANGED <<openai, v1, openaiImportable, pydanticCoerces, body, query,
                   command, raw_result, answer, outcome, calls, asked>>

\* A test installs stub clients in place of the module globals before it
\* sends requests.
InjectClients ==
    /\ served = 0
    /\ openai = "None"
    /\ openai' = "client"
    /\ v1' \in {"None", "client"}
    /\ UNCHANGED <<openaiImportable, pydanticCoerces, served>>
    /\ UNCHANGED reqvars

\* Any step of handling request w.
HandlerStep(w) ==
    \/ \E data \in Bodies : Receive(w, data)
    \/ \E completion \in SynthCompletions : Synthesize(w, completion)
    \/ Execute(w)
    \/ \E completion \in FormatCompletions : Format(w, completion)

Next ==
    \/ InjectClients
    \/ \E w \in Workers, data \in Bodies : Receive(w, data)
    \/ \E w \in Workers, completion \in SynthCompletions : Synthesize(w, completion)
    \/ \E w \in Workers : Execute(w)
    \/ \E w \in Workers, completion \in FormatCompletions : Format(w, completion)
    \/ \E w \in Workers, r \in OtherRequests : Unrouted(w, r[1], r[2])
    \/ \E w \in Workers : Discard(w)

Spec == Init /\ [][Next]_vars

(* ------------------------------ claims ------------------------------- *)

Done(w) == pc[w] = "done"

\* Worker w is handling, or has answered, a POST /query request.
IsQuery(w) == route[w] = <<"POST", "/query">>

\* The host names the operation of command cmd reads.
CommandReads(cmd) ==
    UNION {Reads(ExecutedText(cmd)[i]) :
             i \in {j \in 1..Len(ExecutedText(cmd)) :
                      ExecutedText(cmd)[j] \notin Whitespace}}

\* C1: whenever the Executor produced a Value (the slot `result` was bound
\* after a clean run), the request moves on to Formatting with that value:
\* it is about to call the Formatter or has called it.
C1_ValueReachesFormatting ==
    \A w \in Workers :
        outcome[w].exec = "Value" =>
            /\ pc[w] \in {"format", "done"}
            /\ Done(w) => calls[w].fmt = 1

\* C2: when the Executor classified the outcome as ApiSurfaceMismatch, the
\* Formatter is not called and the response is a 500 whose error says the
\* operation is unsupported.
C2_MismatchIs500 ==
    \A w \in Workers :
        outcome[w].exec = "ApiSurfaceMismatch" =>
            /\ calls[w].fmt = 0
            /\ Done(w)
            /\ response[w].status = 500
            /\ response[w].error = UnsupportedMsg.v

\* C3: a request whose body is not valid JSON is answered with 400.
C3_MalformedIs400 ==
    \A w \in Workers :
        Done(w) /\ body[w].kind = "malformed" => response[w].status = 400

\* A parsed body with no 'query' member or an empty one, objects or not.
MissingQuery(data) ==
    /\ data.kind = "json"
    /\ data.data.t # "dict" \/ ~Truthy(GetQuery(data))

\* C4: a body with no query or an empty query is answered with 400, the
\* error mentions the missing query, and no stage is called.
C4_MissingQueryIs400 ==
    \A w \in Workers :
        Done(w) /\ MissingQuery(body[w]) =>
            /\ response[w].status = 400
            /\ response[w].error = <<"No query provided">>
            /\ calls[w] = NoCalls

SynthFailed(w) ==
    \/ outcome[w].synth \in {"ClientUnavailable", "CallError"}
    \/ outcome[w].synth = "Returned" /\ command[w].v = <<>>

\* C5: when the Synthesizer failed or returned an empty descriptor, the
\* response is 500 and neither the Executor nor the Formatter was called.
C5_SynthFailureStops ==
    \A w \in Workers :
        SynthFailed(w) =>
            /\ Done(w)
            /\ response[w].status = 500
            /\ calls[w].exec = 0
            /\ calls[w].fmt = 0

\* C5 witness: requests ended after a failed completion call and after an
\* empty completion, and a request whose completion was not empty went on.
C5_Witness ==
    \E a, b \in Workers :
        /\ outcome[a].synth = "CallError" /\ response[a].status = 500
        /\ outcome[b].synth = "Returned" /\ command[b].v = <<>>
        /\ response[b].status = 500

ExecFailed(w) ==
    outcome[w].exec \in {"ApiSurfaceMismatch", "RuntimeError", "NoResult"}

FmtFailed(w) == outcome[w].fmt \in {"ClientUnavailable", "CallError"}

\* C6: every request follows Received -> Synthesizing -> Executing ->
\* Formatting -> Completed, with Failed(stage) the only other exit: each
\* stage runs at most once and in order, a stage runs only after the stage
\* before it succeeded, a stage is skipped only after a failure of an
\* earlier stage or of validation, and the request ends Completed or Failed.
C6_PipelineShape ==
    \A w \in Workers :
        /\ pc[w] # "crashed"
        /\ calls[w].synth <= 1 /\ calls[w].exec <= 1 /\ calls[w].fmt <= 1
        /\ calls[w].exec = 1 => outcome[w].synth = "Returned" /\ ~SynthFailed(w)
        /\ calls[w].fmt = 1 => outcome[w].exec = "Value"
        /\ Done(w) /\ IsQuery(w) /\ calls[w].synth = 0 =>
               body[w].kind = "malformed" \/ MissingQuery(body[w])
        /\ Done(w) /\ calls[w].synth = 1 /\ calls[w].exec = 0 => SynthFailed(w)
        /\ Done(w) /\ calls[w].exec = 1 /\ calls[w].fmt = 0 => ExecFailed(w)
        /\ Done(w) /\ response[w].status = 200 =>
               calls[w] = [synth |-> 1, exec |-> 1, fmt |-> 1] /\ ~FmtFailed(w)

\* C7: when the operation ran cleanly but left `result` unbound, the
\* request is aborted with 500 and the Formatter is not called.
C7_NoResultIs500 ==
    \A w \in Workers :
        outcome[w].exec = "NoResult" =>
            /\ calls[w].fmt = 0
            /\ Done(w)
            /\ response[w].status = 500

\* C8: whatever the operation raises, the Executor returns a classified
\* failure to the handler: nothing raised during execution leaves the
\* Executor or the handler.
C8_NothingEscapes ==
    \A w \in Workers :
        calls[w].exec = 1 => outcome[w].exec # "Escaped" /\ pc[w] # "crashed"

\* C9: the operation can use no name of the host process but the
\* control-plane client: an operation that reads another name does not
\* run to a value.
C9_OnlyClientExposed ==
    \A w \in Workers :
        calls[w].exec = 1 /\ ~(CommandReads(command[w]) \subseteq {"v1"}) =>
            outcome[w].exec = "RuntimeError"

\* C10: no step of handling a request changes the two client handles.
C10_HandlesUnchanged ==
    [][\A w \in Workers : HandlerStep(w) => openai' = openai /\ v1' = v1]_vars

\* C11: GET /test_connection is answered with 200 and the listed
\* namespaces, or with 500 when the client is unavailable or the call fails.
C11_TestConnectionAnswers ==
    \A w \in Workers :
        Done(w) /\ route[w] = <<"GET", "/test_connection">> =>
            response[w].status \in {200, 500}

\* Every stage of w's request did what it is for: a descriptor came back,
\* the operation bound `result`, and the Formatter's call returned.
FullSuccess(w) ==
    /\ outcome[w].synth = "Returned" /\ command[w].v # <<>>
    /\ outcome[w].exec = "Value"
    /\ outcome[w].fmt = "Returned"

\* C12: on full success the response is 200 (never 500) with the request's
\* query unchanged and exactly the Formatter's answer, whatever its text.
C12_FullSuccessIs200 ==
    \A w \in Workers :
        FullSuccess(w) =>
            /\ Done(w)
            /\ response[w].status = 200
            /\ response[w].query = query[w]
            /\ response[w].answer = answer[w].v

\* C13: when the Formatter fails (client unavailable, or the completion
\* call errors) the response is a 500 with an error text and no answer.
C13_FormatFailureIs500 ==
    \A w \in Workers :
        FmtFailed(w) =>
            /\ Done(w)
            /\ response[w].status = 500
            /\ response[w].error # <<>>
            /\ response[w].answer = <<>>

\* C13 witness: one request ended 500 because the client was gone when the
\* Formatter ran, another because the Formatter's completion call failed.
C13_Witness ==
    \E a, b \in Workers :
        /\ outcome[a].fmt = "ClientUnavailable" /\ response[a].status = 500
        /\ outcome[b].fmt = "CallError" /\ response[b].status = 500

\* The language-model stub answered requests a and b as one deterministic
\* function of the prompt would: the same completion for the same query,
\* the same completion for the same query and raw result.
StubsAgree(a, b) ==
    /\ (asked[a].synth # NotAsked /\ asked[b].synth # NotAsked
            /\ query[a] = query[b])
        => asked[a].synth = asked[b].synth
    /\ (asked[a].fmt # NotAsked /\ asked[b].fmt # NotAsked
            /\ query[a] = query[b] /\ raw_result[a] = raw_result[b])
        => asked[a].fmt = asked[b].fmt

\* C14: with deterministic stub clients, two POST /query requests with the
\* same body get the same status and the same response body.
C14_SameBodySameResponse ==
    \A a, b \in Workers :
        (Done(a) /\ Done(b) /\ IsQuery(a) /\ IsQuery(b)
            /\ body[a] = body[b] /\ StubsAgree(a, b))
        => response[a] = response[b]

\* The fragments msg appear in text, in order and adjacent.
Carries(text, msg) ==
    \E i \in 1..Len(text) : \E j \in i..Len(text) : SubSeq(text, i, j) = msg

\* C15: for every failure of a stage the error text of the 500 carries the
\* message of the underlying error: of the failed completion call of the
\* Synthesizer or the Formatter, of the exception the operation raised.
C15_UnderlyingMessageForwarded ==
    \A w \in Workers :
        /\ outcome[w].synth = "CallError" =>
               /\ Done(w) /\ response[w].status = 500
               /\ Carries(response[w].error, asked[w].synth.content)
        /\ outcome[w].exec = "RuntimeError" =>
               /\ Done(w) /\ response[w].status = 500
               /\ response[w].error = raw_result[w].v
        /\ outcome[w].fmt = "CallError" =>
               /\ Done(w) /\ response[w].status = 500
               /\ Carries(response[w].error, asked[w].fmt.content)

\* C15 as amended: after a Synthesizer failure the error text is the fixed
\* 'Failed to generate command'; after a runtime error of the operation it
\* is 'Error executing command: ' followed by the exception's message;
\* after a Formatter failure it is the Formatter's fixed failure text.
C15_FailureTextOfStage ==
    \A w \in Workers :
        /\ SynthFailed(w) =>
               /\ Done(w) /\ response[w].status = 500
               /\ response[w].error = <<"Failed to generate command">>
        /\ outcome[w].exec = "RuntimeError" =>
               /\ Done(w) /\ response[w].status = 500
               /\ \E exc \in ExceptionSubclasses \ {"AttributeError"} :
                      response[w].error =
                          <<"Error", " executing command: ", ExcMessage(exc)>>
        /\ FmtFailed(w) =>
               /\ Done(w) /\ response[w].status = 500
               /\ response[w].error = answer[w].v
               /\ answer[w] \in {FormatUnavailableMsg, FormatErrorMsg}

\* C15 witness: one request ended on a failed completion call of the
\* Synthesizer, another on an exception raised by the operation.
C15_Witness ==
    \E a, b \in Workers :
        /\ outcome[a].synth = "CallError" /\ response[a].status = 500
        /\ outcome[b].exec = "RuntimeError" /\ response[b].status = 500

\* The log of w's request holds an error-level entry written by stage or
\* naming it.
ErrorLogged(w, stage) ==
    \E i \in 1..Len(log[w]) :
        log[w][i][1] = "ERROR" /\ stage \in {log[w][i][2], log[w][i][3]}

\* C16: every 400 or 500 answer to POST /query comes with an error-level
\* log entry of the same request, and when a stage's failure produced the
\* answer an entry is written by that stage or names it.
C16_FailuresLogged ==
    \A w \in Workers :
        Done(w) /\ IsQuery(w) /\ response[w].status \in {400, 500} =>
            /\ \E i \in 1..Len(log[w]) : log[w][i][1] = "ERROR"
            /\ SynthFailed(w) => ErrorLogged(w, "synth")
            /\ outcome[w].exec = "RuntimeError" => ErrorLogged(w, "exec")
            /\ FmtFailed(w) => ErrorLogged(w, "fmt")

\* C16 witness: a 400 and a 500 caused by a Formatter failure, both logged.
C16_Witness ==
    \E a, b \in Workers :
        /\ Done(a) /\ IsQuery(a) /\ response[a].status = 400
        /\ ErrorLogged(a, "handler")
        /\ Done(b) /\ IsQuery(b) /\ response[b].status = 500 /\ FmtFailed(b)
        /\ ErrorLogged(b, "fmt")

\* C17: the text the Executor hands to exec() is never empty: a completion
\* that is fence markup only is not executed.
C17_ExecutedTextNotEmpty ==
    \A w \in Workers :
        calls[w].exec = 1 => ExecutedText(command[w]) # <<>>

\* C18: a request answered with 400 has run no stage.
C18_InputErrorsBeforeStages ==
    \A w \in Workers :
        Done(w) /\ IsQuery(w) /\ response[w].status = 400 => calls[w] = NoCalls

\* C19: when the language-model library can be imported, the handle is
\* available once the module is initialized, before any request.
C19_ClientAvailableAfterInit ==
    openaiImportable /\ served = 0 => openai # "None"

====
